---- MODULE Spec2Model ----
(***************************************************************************)
(* A model of the M&A radar scanner (src/scanner.py): the retrying fetch   *)
(* client, the three source adapters, the keyword matcher, the seen-item   *)
(* store, the digest builder and the run orchestrator (main).              *)
(*                                                                         *)
(* Text is modelled as a sequence of one-character strings, so that        *)
(* lower-casing, substring search, whitespace normalisation and string     *)
(* formatting are computed, not assumed. A Python value that may be None   *)
(* is a record [tag, val] with tag "None" or "str".                        *)
(***************************************************************************)
EXTENDS Integers, Sequences, FiniteSets, TLC

VARIABLES
    \* --- match_keywords, called on its own ---
    m_pc, m_text, m_keywords, m_result,
    \* --- safe_get ---
    sg_pc, sg_log, sg_last_err, sg_result, sg_calls,
    \* --- build_digest, called on its own ---
    d_pc, d_hits, d_lines,
    \* --- the two HTML link-list adapters, called on their own ---
    h_pc, h_source, h_anchors, h_items, h_result,
    \* --- the JSON feed adapter, called on its own ---
    j_pc, j_payload, j_result,
    \* --- main: the runs and the store they share ---
    keywords, table, now, pc, all_items, idx, new_hits, body,
    \* history of the runs (not program state)
    fetched, start_urls, calls, inserts, handed

matchVars  == <<m_pc, m_text, m_keywords, m_result>>
fetchVars  == <<sg_pc, sg_log, sg_last_err, sg_result, sg_calls>>
digestVars == <<d_pc, d_hits, d_lines>>
htmlVars   == <<h_pc, h_source, h_anchors, h_items, h_result>>
jsonVars   == <<j_pc, j_payload, j_result>>
mainVars   == <<keywords, table, now, pc, all_items, idx, new_hits, body,
                fetched, start_urls, calls, inserts, handed>>
vars == <<matchVars, fetchVars, digestVars, htmlVars, jsonVars, mainVars>>

----------------------------------------------------------------------------
(* Python values and strings *)

None == [tag |-> "None", val |-> <<>>]
Str(s) == [tag |-> "str", val |-> s]
IsNone(v) == v.tag = "None"

\* Python truthiness of an optional string: None and "" are falsy.
Truthy(v) == v.tag = "str" /\ v.val # <<>>

\* `v or ""` for an optional string
OrEmpty(v) == IF Truthy(v) THEN v.val ELSE <<>>

NoneText == <<"N","o","n","e">>

\* What an f-string or str() makes of an optional string: None prints as "None".
Format(v) == IF IsNone(v) THEN NoneText ELSE v.val

UpperCase == <<"A","B","C","D","E","F","G","H","I","J","K","L","M","N","O","P","Q","R","S","T","U","V","W","X","Y","Z">>
LowerCase == <<"a","b","c","d","e","f","g","h","i","j","k","l","m","n","o","p","q","r","s","t","u","v","w","x","y","z">>

LowerChar(c) ==
    IF \E i \in 1..26 : UpperCase[i] = c
    THEN LowerCase[CHOOSE i \in 1..26 : UpperCase[i] = c]
    ELSE c

\* str.lower()
Lower(s) == [i \in 1..Len(s) |-> LowerChar(s[i])]

\* Python's `k in t` on strings
Contains(t, k) ==
    \E i \in 0..(Len(t) - Len(k)) : SubSeq(t, i + 1, i + Len(k)) = k

\* \s of the regular expression, and what str.strip() removes
IsSpace(c) == c \in {" ", "\t", "\n"}

\* re.sub(r"\s+", " ", s): every run of whitespace becomes one space
RECURSIVE CollapseSpaces(_)
CollapseSpaces(s) ==
    IF s = <<>> THEN <<>>
    ELSE IF IsSpace(Head(s)) /\ Len(s) > 1 /\ IsSpace(s[2])
         THEN CollapseSpaces(Tail(s))
         ELSE <<IF IsSpace(Head(s)) THEN " " ELSE Head(s)>> \o CollapseSpaces(Tail(s))

\* str.strip()
RECURSIVE Strip(_)
Strip(s) ==
    IF s = <<>> THEN <<>>
    ELSE IF IsSpace(Head(s)) THEN Strip(Tail(s))
    ELSE IF IsSpace(s[Len(s)]) THEN Strip(SubSeq(s, 1, Len(s) - 1))
    ELSE s

\* normalize_whitespace(s): re.sub(r"\s+", " ", (s or "")).strip()
normalize_whitespace(v) == Strip(CollapseSpaces(OrEmpty(v)))

----------------------------------------------------------------------------
(* match_keywords *)

KW_DEFINITIVE == <<"d","e","f","i","n","i","t","i","v","e"," ","a","g","r","e","e","m","e","n","t">>
KW_ACQUISITION == <<"a","c","q","u","i","s","i","t","i","o","n">>
WeightDefinitive == 5
WeightAcquisition == 3
WeightOther == 2

\* A keyword weighted as any other one: the bug of a matcher without the
\* special cases.
KeywordWeightFlat(kw) == WeightOther

\* lines 71-76: the weight a matched keyword adds to the score
KeywordWeight(kw) ==
    IF Lower(kw) = KW_DEFINITIVE THEN WeightDefinitive
    ELSE IF Lower(kw) = KW_ACQUISITION THEN WeightAcquisition
    ELSE WeightOther

\* The loop of lines 67-76, from keyword i on, with the matched list and the
\* score accumulated so far.
RECURSIVE MatchLoop(_, _, _, _, _)
MatchLoop(t, kws, i, matched, score) ==
    IF i > Len(kws) THEN [matched |-> matched, score |-> score]
    ELSE IF Contains(t, Lower(kws[i]))
         THEN MatchLoop(t, kws, i + 1, Append(matched, kws[i]),
                        score + KeywordWeight(kws[i]))
         ELSE MatchLoop(t, kws, i + 1, matched, score)

match_keywords(text, kws) == MatchLoop(Lower(text), kws, 1, <<>>, 0)

kwDefinitiveCaps == <<"D","e","f","i","n","i","t","i","v","e"," ","A","g","r","e","e","m","e","n","t">>
kwAcquisitionCaps == <<"A","C","Q","U","I","S","I","T","I","O","N">>
kwMerger == <<"m","e","r","g","e","r">>
kwNone == <<"n","o","n","e">>

txtA == <<"A","C","M","E"," ","D","E","F","I","N","I","T","I","V","E"," ","A","G","R","E","E","M","E","N","T">>
txtB == <<"A","c","q","u","i","s","i","t","i","o","n"," ","b","y"," ","M","e","r","g","e","r"," ","C","o"," ","m","e","r","g","e","r">>
txtC == <<"d","e","f","i","n","i","t","i","v","e"," "," ","a","g","r","e","e","m","e","n","t">>
txtD == <<"M","e","r","g","e">>
txtE == <<"m","e","r","g","e","r"," ","a","c","q","u","i","s","i","t","i","o","n"," ","d","e","f","i","n","i","t","i","v","e"," ","a","g","r","e","e","m","e","n","t">>

\* The texts and keywords the matcher is tried on.
TextSamples == {txtA, txtB, txtC, txtD, txtE, <<>>}
KeywordPool == {KW_DEFINITIVE, kwDefinitiveCaps, KW_ACQUISITION, kwAcquisitionCaps,
                kwMerger, <<>>}

\* The longest keyword list tried.
MaxKeywords == 2

KeywordLists == UNION {[1..n -> KeywordPool] : n \in 0..MaxKeywords}

MatchOff ==
    /\ m_pc = "off" /\ m_text = <<>> /\ m_keywords = <<>>
    /\ m_result = [matched |-> <<>>, score |-> 0]

\* A call match_keywords(text, keywords) about to be made.
MatchInit ==
    /\ m_pc = "call"
    /\ m_text \in TextSamples
    /\ m_keywords \in KeywordLists
    /\ m_result = [matched |-> <<>>, score |-> 0]

\* The call returns.
MatchReturn ==
    /\ m_pc = "call"
    /\ m_result' = match_keywords(m_text, m_keywords)
    /\ m_pc' = "ret"
    /\ UNCHANGED <<m_text, m_keywords>>

----------------------------------------------------------------------------
(* safe_get *)

\* range(3), line 20
MaxAttempts == 3

\* What the server may answer with, and how a request may fail in transport.
Statuses == {200, 304, 404, 503}
TransportErrors == {"ConnectionError", "Timeout"}

\* One attempt: requests.get raises a transport error, or returns a response.
AttemptOutcomes ==
    {[exc |-> e, status |-> 0] : e \in TransportErrors}
        \cup {[exc |-> "", status |-> st] : st \in Statuses}

NoError == [exc |-> "", status |-> 0]

\* Response.raise_for_status() raises HTTPError for a 4xx or 5xx status.
RaisesForStatus(status) == status >= 400 /\ status < 600

\* The exception one attempt ends with (lines 22-32), NoError if it has none.
AttemptError(o) ==
    IF o.exc # "" THEN o
    ELSE IF RaisesForStatus(o.status) THEN [exc |-> "HTTPError", status |-> o.status]
    ELSE NoError

\* A client that keeps the first error it saw.
RecordFirstError(last_err, e) == IF last_err = NoError THEN e ELSE last_err

\* line 35: last_err = e
RecordError(last_err, e) == e

\* The calls of safe_get made one after the other.
MaxCalls == 2

FetchOff ==
    /\ sg_pc = "off" /\ sg_log = <<>> /\ sg_last_err = NoError
    /\ sg_result = NoError /\ sg_calls = 0

FetchInit ==
    /\ sg_pc = "idle" /\ sg_log = <<>> /\ sg_last_err = NoError
    /\ sg_result = NoError /\ sg_calls = 0

\* safe_get(url) is called: last_err = None, and the loop starts (lines 19-20).
SafeGetCall ==
    /\ sg_pc \in {"idle", "returned", "raised"}
    /\ sg_calls < MaxCalls
    /\ sg_calls' = sg_calls + 1
    /\ sg_pc' = "loop"
    /\ sg_log' = <<>>
    /\ sg_last_err' = NoError
    /\ sg_result' = NoError

\* One pass of the loop (lines 20-35) and, after the last pass, line 36.
SafeGetAttempt ==
    /\ sg_pc = "loop"
    /\ Len(sg_log) < MaxAttempts
    /\ \E o \in AttemptOutcomes :
        /\ sg_log' = Append(sg_log, o)
        /\ IF AttemptError(o) = NoError
           THEN /\ sg_pc' = "returned"
                /\ sg_result' = o
                /\ UNCHANGED sg_last_err
           ELSE /\ sg_last_err' = RecordError(sg_last_err, AttemptError(o))
                /\ IF Len(sg_log) + 1 = MaxAttempts
                   THEN /\ sg_pc' = "raised"
                        /\ sg_result' = sg_last_err'
                   ELSE /\ sg_pc' = "loop"
                        /\ UNCHANGED sg_result
    /\ UNCHANGED sg_calls

----------------------------------------------------------------------------
(* fetch_businesswire and fetch_prnewswire *)

(* A link (href, URL) is a sequence of chunks, each an atomic piece of the   *)
(* string: concatenation is \o, startswith looks at the first chunk,         *)
(* endswith at the last, and `marker in href` is membership of the chunk.    *)
(* The visible text of an anchor is a sequence of characters.                *)

SchemeChunks == {"http://", "https://"}
BW_BASE == <<"https://", "www.businesswire.com">>
PR_BASE == <<"https://", "www.prnewswire.com">>
BW_MARKER == "/news/home/"
PR_MARKER == "/news-releases/"
HTML_EXT == ".html"

\* href.startswith("http")
StartsWithHttp(href) == href # <<>> /\ href[1] \in SchemeChunks
\* marker in href
HasChunk(href, marker) == \E i \in 1..Len(href) : href[i] = marker
\* href.endswith(".html")
EndsWithHtml(href) == href # <<>> /\ href[Len(href)] = HTML_EXT

\* lines 117 and 148: full = href if href.startswith("http") else base + href
Resolve(base, href) == IF StartsWithHttp(href) THEN href ELSE base \o href

Item(source, title, url, published_at, snippet) ==
    [source |-> source, title |-> title, url |-> url,
     published_at |-> published_at, snippet |-> snippet]

\* line 114: len(text) < 12 drops the anchor
BW_MIN_TEXT == 12
\* line 147: len(title) > 12 keeps the anchor
PR_TEXT_OVER == 12
\* line 134: uniq[:50]
BW_CAP == 50
\* line 164: uniq[:60]
PR_CAP == 60

\* lines 111-124: the anchors of the page that become candidates, in order
RECURSIVE BWCandidates(_, _)
BWCandidates(anchors, i) ==
    IF i > Len(anchors) THEN <<>>
    ELSE LET href == anchors[i].href
             text == normalize_whitespace(Str(anchors[i].text))
         IN  IF text = <<>> \/ Len(text) < BW_MIN_TEXT
             THEN BWCandidates(anchors, i + 1)
             ELSE IF HasChunk(href, BW_MARKER)
                  THEN <<Item("BusinessWire", text, Resolve(BW_BASE, href), None, None)>>
                           \o BWCandidates(anchors, i + 1)
                  ELSE BWCandidates(anchors, i + 1)

\* lines 144-155
RECURSIVE PRCandidates(_, _)
PRCandidates(anchors, i) ==
    IF i > Len(anchors) THEN <<>>
    ELSE LET href == anchors[i].href
             title == normalize_whitespace(Str(anchors[i].text))
         IN  IF HasChunk(href, PR_MARKER) /\ EndsWithHtml(href) /\ Len(title) > PR_TEXT_OVER
             THEN <<Item("PRNewswire", title, Resolve(PR_BASE, href), None, None)>>
                      \o PRCandidates(anchors, i + 1)
             ELSE PRCandidates(anchors, i + 1)

\* lines 127-133 and 157-163: the loop from item i on, with the set seen and the
\* list uniq built so far
RECURSIVE DedupeLoop(_, _, _, _)
DedupeLoop(items, i, seen, uniq) ==
    IF i > Len(items) THEN uniq
    ELSE IF items[i].url \in seen
         THEN DedupeLoop(items, i + 1, seen, uniq)
         ELSE DedupeLoop(items, i + 1, seen \cup {items[i].url}, Append(uniq, items[i]))

\* A de-duplication that forgets to skip: every candidate is kept.
DedupeKeepAll(items) == items

\* de-dupe by url while preserving order
Dedupe(items) == DedupeLoop(items, 1, {}, <<>>)

\* uniq[:cap]
Take(s, cap) == SubSeq(s, 1, IF Len(s) < cap THEN Len(s) ELSE cap)

fetch_businesswire(anchors) == Take(Dedupe(BWCandidates(anchors, 1)), BW_CAP)
fetch_prnewswire(anchors) == Take(Dedupe(PRCandidates(anchors, 1)), PR_CAP)

CapOf(source) == IF source = "BusinessWire" THEN BW_CAP ELSE PR_CAP
BaseOf(source) == IF source = "BusinessWire" THEN BW_BASE ELSE PR_BASE

(* The pages the adapters are tried on. *)

\* n times the letter x
XText(n) == [i \in 1..n |-> "x"]

\* Visible texts of 10 to 14 characters once normalised, some of them with
\* surrounding or repeated whitespace in the raw text.
TextOfLength(n, spaced) ==
    IF spaced
    THEN <<" ", "\n">> \o XText(n - 6) \o <<" ", "\t", " ">> \o XText(5) \o <<" ">>
    ELSE XText(n)

\* The relative link of article k on the page of a source.
RelHref(source, k) ==
    IF source = "BusinessWire" THEN <<BW_MARKER, ToString(k)>>
    ELSE <<PR_MARKER, ToString(k), HTML_EXT>>

\* Anchor i of a page of the given pattern:
\*   "distinct": every anchor another article, relative links;
\*   "twice":    every article linked twice, once relative and once absolute;
\*   "cycle":    seven articles linked over and over;
\*   "lengths":  every anchor another article, with texts of 10 to 14
\*               characters and every third link outside the article path.
PageAnchor(source, pattern, i) ==
    CASE pattern = "distinct" ->
            [href |-> RelHref(source, i), text |-> XText(20)]
      [] pattern = "twice" ->
            [href |-> IF i % 2 = 1 THEN RelHref(source, (i + 1) \div 2)
                      ELSE BaseOf(source) \o RelHref(source, (i + 1) \div 2),
             text |-> XText(13 + (i % 2))]
      [] pattern = "cycle" ->
            [href |-> RelHref(source, (i % 7) + 1), text |-> XText(15)]
      [] pattern = "lengths" ->
            [href |-> IF i % 3 = 0 THEN <<"/about/", ToString(i)>> ELSE RelHref(source, i),
             text |-> TextOfLength(10 + (i % 5), i % 2 = 0)]

PagePatterns == {"distinct", "twice", "cycle", "lengths"}

\* The most anchors on a page.
MaxAnchors == 100

HtmlOff ==
    /\ h_pc = "off" /\ h_source = "" /\ h_anchors = <<>>
    /\ h_items = <<>> /\ h_result = <<>>

\* An adapter about to be called on a page.
HtmlInit ==
    /\ h_pc = "call"
    /\ h_source \in {"BusinessWire", "PRNewswire"}
    /\ \E pattern \in PagePatterns, n \in 0..MaxAnchors :
           h_anchors = [i \in 1..n |-> PageAnchor(h_source, pattern, i)]
    /\ h_items = <<>> /\ h_result = <<>>

\* fetch_businesswire(url) returns.
FetchBusinesswireReturn ==
    /\ h_pc = "call" /\ h_source = "BusinessWire"
    /\ h_items' = BWCandidates(h_anchors, 1)
    /\ h_result' = fetch_businesswire(h_anchors)
    /\ h_pc' = "ret"
    /\ UNCHANGED <<h_source, h_anchors>>

\* fetch_prnewswire(url) returns.
FetchPrnewswireReturn ==
    /\ h_pc = "call" /\ h_source = "PRNewswire"
    /\ h_items' = PRCandidates(h_anchors, 1)
    /\ h_result' = fetch_prnewswire(h_anchors)
    /\ h_pc' = "ret"
    /\ UNCHANGED <<h_source, h_anchors>>

----------------------------------------------------------------------------
(* fetch_globenewswire_json *)

(* A JSON value is [t, s]: null, a number or a string (s its characters, or  *)
(* the chunks of a link). An entry of the feed is a JSON object, given as    *)
(* the value of each key the adapter looks at (null for a key it lacks:      *)
(* dict.get answers None either way), or a value that is no object.          *)

JNull == [t |-> "null", s |-> <<>>]
JStr(s) == [t |-> "str", s |-> s]
JNum(s) == [t |-> "num", s |-> s]

\* Python truthiness of a JSON value (the numbers used here are not 0)
JTruthy(v) == v.t = "num" \/ (v.t = "str" /\ v.s # <<>>)

\* a or b
Or2(a, b) == IF JTruthy(a) THEN a ELSE b
\* a or b or c or d
Or4(a, b, c, d) == Or2(a, Or2(b, Or2(c, d)))

GN_BASE == <<"https://", "www.globenewswire.com">>
\* line 203: items[:60]
GN_CAP == 60

dateIso == <<"2","0","2","4","-","0","1","-","0","5">>
dateIsoParsed == <<"2","0","2","4","-","0","1","-","0","5","T","0","0",":","0","0",":","0","0">>
dateUS == <<"J","a","n"," ","5",","," ","2","0","2","4">>
dateGarbage == <<"s","o","o","n">>

\* dateutil's parser.parse(s).isoformat() on the date strings of the feeds
\* modelled; ok is FALSE where parse raises.
ParseDate(v) ==
    IF v.t # "str" THEN [ok |-> FALSE, iso |-> <<>>]
    ELSE IF v.s \in {dateIso, dateUS} THEN [ok |-> TRUE, iso |-> dateIsoParsed]
    ELSE [ok |-> FALSE, iso |-> <<>>]

\* lines 184-190: published_iso
PublishedIso(it) ==
    LET published == Or4(it.f.Published, it.f.published, it.f.PubDate, it.f.pubDate)
    IN  IF JTruthy(published) /\ ParseDate(published).ok
        THEN Str(ParseDate(published).iso)
        ELSE None

Ok(items) == [ok |-> TRUE, exc |-> "", items |-> items]
Raise(exc) == [ok |-> FALSE, exc |-> exc, items |-> <<>>]

\* The body of the loop (lines 180-201) for one entry: the exception it
\* raises, or the items with the entry's item appended (or not, on continue).
EntryStep(it, items) ==
    IF it.kind # "dict" THEN Raise("AttributeError")
    ELSE LET rawTitle == Or2(it.f.Title, it.f.title)
             link == Or4(it.f.Url, it.f.url, it.f.Link, it.f.link)
             rawSnippet == Or4(it.f.Teaser, it.f.teaser, it.f.Summary, it.f.summary)
         IN  IF rawTitle.t = "num" THEN Raise("TypeError")
             ELSE LET title == normalize_whitespace(Str(rawTitle.s))
                  IN  IF title = <<>> \/ ~JTruthy(link) THEN Ok(items)
                      ELSE IF rawSnippet.t = "num" THEN Raise("TypeError")
                      ELSE LET snippet == normalize_whitespace(Str(rawSnippet.s))
                               full == Resolve(GN_BASE, link.s)
                           IN  Ok(Append(items,
                                   Item("GlobeNewswire", title, full, PublishedIso(it),
                                        IF snippet # <<>> THEN Str(snippet) ELSE None)))

\* The loop of lines 179-201 from entry i on.
RECURSIVE EntryLoop(_, _, _)
EntryLoop(raw_items, i, items) ==
    IF i > Len(raw_items) THEN Ok(items)
    ELSE LET r == EntryStep(raw_items[i], items)
         IN  IF r.ok THEN EntryLoop(raw_items, i + 1, r.items) ELSE r

\* A payload is invalid JSON, a list of entries, or an object with or without
\* an "Items" list.
fetch_globenewswire_json(payload) ==
    IF payload.shape = "invalid" THEN Raise("JSONDecodeError")
    ELSE IF payload.shape = "object" /\ ~payload.hasItems THEN Ok(<<>>)
    ELSE IF payload.entries = <<>> THEN Ok(<<>>)
    ELSE LET r == EntryLoop(payload.entries, 1, <<>>)
         IN  IF r.ok THEN Ok(Take(r.items, GN_CAP)) ELSE r

(* The entries the adapter is tried on. *)

NoFields ==
    [Title |-> JNull, title |-> JNull, Url |-> JNull, url |-> JNull,
     Link |-> JNull, link |-> JNull, Published |-> JNull, published |-> JNull,
     PubDate |-> JNull, pubDate |-> JNull, Teaser |-> JNull, teaser |-> JNull,
     Summary |-> JNull, summary |-> JNull]

Object(f) == [kind |-> "dict", f |-> f]

titleGN == <<"D","e","l","t","a"," ","d","e","f","i","n","i","t","i","v","e"," ","a","g","r","e","e","m","e","n","t">>
titleAcq == <<"G","a","m","m","a"," ","a","c","q","u","i","s","i","t","i","o","n">>
titleSpaced == <<" "," ","E","p","s","i","l","o","n"," ","\t"," ","m","e","r","g","e","r"," "," ","p","l","a","n"," ">>
titleSplit == <<"B","e","t","a"," ","a","g","r","e","e","s"," ","m","e","r","g","e","r">>
snipSplit == <<"a","g","r","e","e","m","e","n","t"," ","s","i","g","n","e","d">>
snipPlain == <<" ","m","o","r","e"," "," ","d","e","t","a","i","l","s"," ">>

eGood == Object([NoFields EXCEPT !.Title = JStr(titleGN), !.Url = JStr(<<"/gn/", "1">>),
                                 !.Published = JStr(dateIso), !.Teaser = JStr(snipPlain)])
eLower == Object([NoFields EXCEPT !.title = JStr(titleSpaced), !.link = JStr(<<"/gn/", "2">>),
                                  !.pubDate = JStr(dateUS), !.summary = JStr(snipSplit)])
eAbsolute == Object([NoFields EXCEPT !.Title = JStr(titleAcq),
                                     !.Link = JStr(<<"https://", "example.org", "/gn/", "3">>)])
eBadDate == Object([NoFields EXCEPT !.Title = JStr(titleSplit), !.url = JStr(<<"/gn/", "4">>),
                                    !.Published = JStr(dateGarbage), !.teaser = JStr(snipSplit)])
eNoTitle == Object([NoFields EXCEPT !.Url = JStr(<<"/gn/", "5">>)])
eNoLink == Object([NoFields EXCEPT !.Title = JStr(titleGN)])
eNumTitle == Object([NoFields EXCEPT !.Title = JNum(<<"7">>), !.Url = JStr(<<"/gn/", "6">>)])
eString == [kind |-> "str", f |-> NoFields]
eNull == [kind |-> "null", f |-> NoFields]

EntrySamples == {eGood, eLower, eAbsolute, eBadDate, eNoTitle, eNoLink, eNumTitle,
                 eString, eNull}

\* The most entries in a payload.
MaxEntries == 3

EntryLists == UNION {[1..n -> EntrySamples] : n \in 0..MaxEntries}

Payloads ==
    {[shape |-> "invalid", hasItems |-> FALSE, entries |-> <<>>],
     [shape |-> "object", hasItems |-> FALSE, entries |-> <<>>]}
        \cup {[shape |-> sh, hasItems |-> TRUE, entries |-> es] :
                 sh \in {"list", "object"}, es \in EntryLists}

JsonOff ==
    /\ j_pc = "off"
    /\ j_payload = [shape |-> "invalid", hasItems |-> FALSE, entries |-> <<>>]
    /\ j_result = Ok(<<>>)

\* The adapter about to be called on a payload.
JsonInit ==
    /\ j_pc = "call"
    /\ j_payload \in Payloads
    /\ j_result = Ok(<<>>)

\* fetch_globenewswire_json(url) returns or raises.
FetchGlobenewswireReturn ==
    /\ j_pc = "call"
    /\ j_result' = fetch_globenewswire_json(j_payload)
    /\ j_pc' = IF j_result'.ok THEN "ret" ELSE "raised"
    /\ UNCHANGED j_payload

----------------------------------------------------------------------------
(* build_digest *)

\* The characters of the timestamps, in code point order.
CharOrder == <<"-","0","1","2","3","4","5","6","7","8","9",":","T">>
CharRank(c) == CHOOSE i \in 1..Len(CharOrder) : CharOrder[i] = c

\* a < b on Python strings
RECURSIVE StrLess(_, _)
StrLess(a, b) ==
    IF b = <<>> THEN FALSE
    ELSE IF a = <<>> THEN TRUE
    ELSE IF Head(a) = Head(b) THEN StrLess(Tail(a), Tail(b))
    ELSE CharRank(Head(a)) < CharRank(Head(b))

\* line 215: the sort key (score, published_at or ""); KeyLess(a, b) is key(a) < key(b)
KeyLess(a, b) ==
    \/ a.score < b.score
    \/ a.score = b.score /\ StrLess(OrEmpty(a.published_at), OrEmpty(b.published_at))

\* x put into a list sorted in descending order, after the items that do not
\* sort below it: list.sort is stable, also with reverse=True.
RECURSIVE InsertDesc(_, _)
InsertDesc(sorted, x) ==
    IF sorted = <<>> THEN <<x>>
    ELSE IF KeyLess(Head(sorted), x) THEN <<x>> \o sorted
    ELSE <<Head(sorted)>> \o InsertDesc(Tail(sorted), x)

RECURSIVE SortLoop(_, _, _)
SortLoop(hits, i, sorted) ==
    IF i > Len(hits) THEN sorted
    ELSE SortLoop(hits, i + 1, InsertDesc(sorted, hits[i]))

\* A digest that keeps the hits in the order they were found.
SortHitsNot(hits) == hits

\* line 215: new_hits.sort(key=..., reverse=True)
SortHits(hits) == SortLoop(hits, 1, <<>>)

Line(kind, v) == [kind |-> kind, v |-> v]

\* lines 208-209: the date header and the empty line after it
DigestHead == <<Line("date", <<>>), Line("blank", <<>>)>>

\* lines 210-212
NoMatchDigest == DigestHead \o <<Line("nomatch", <<>>)>>

\* lines 224-233: the lines of one item
ItemLines(it) ==
    <<Line("title", it.title), Line("url", it.url)>>
        \o (IF Truthy(it.published_at) THEN <<Line("published", it.published_at.val)>> ELSE <<>>)
        \o (IF it.matched # <<>> THEN <<Line("matched", <<it.matched, it.score>>)>> ELSE <<>>)
        \o (IF Truthy(it.snippet) THEN <<Line("snippet", it.snippet.val)>> ELSE <<>>)

\* The loop of lines 218-233 from item i on; current_source is "" for None.
RECURSIVE RenderLoop(_, _, _)
RenderLoop(hits, i, current_source) ==
    IF i > Len(hits) THEN <<>>
    ELSE (IF hits[i].source # current_source
          THEN <<Line("blank", <<>>), Line("header", hits[i].source)>>
          ELSE <<>>)
             \o ItemLines(hits[i]) \o RenderLoop(hits, i + 1, hits[i].source)

build_digest(hits) ==
    IF hits = <<>> THEN NoMatchDigest
    ELSE DigestHead \o RenderLoop(SortHits(hits), 1, "")

(* The hits the builder is tried on. *)

pubOld == <<"2","0","2","3","-","1","2","-","3","1","T","0","9",":","0","0",":","0","0">>
pubNew == <<"2","0","2","4","-","0","1","-","0","5","T","0","0",":","0","0",":","0","0">>
kwMergerList == <<kwMerger>>

\* Hit number i of a list, with the given source, score and timestamp.
Hit(i, source, score, published_at) ==
    [source |-> source, title |-> <<"t", ToString(i)>>, url |-> <<"/d/", ToString(i)>>,
     published_at |-> published_at, snippet |-> None,
     matched |-> kwMergerList, score |-> score]

HitKinds ==
    [source : {"BusinessWire", "GlobeNewswire"},
     score : {WeightOther, WeightAcquisition, WeightDefinitive},
     published_at : {None, Str(pubOld), Str(pubNew)}]

\* The most hits in a digest.
MaxHits == 3

HitLists ==
    UNION {{[i \in 1..n |-> Hit(i, k[i].source, k[i].score, k[i].published_at)] :
               k \in [1..n -> HitKinds]} : n \in 0..MaxHits}

DigestOff == d_pc = "off" /\ d_hits = <<>> /\ d_lines = <<>>

\* build_digest(new_hits) about to be called.
DigestInit == d_pc = "call" /\ d_hits \in HitLists /\ d_lines = <<>>

\* build_digest(new_hits) returns.
BuildDigestReturn ==
    /\ d_pc = "call"
    /\ d_lines' = build_digest(d_hits)
    /\ d_pc' = "ret"
    /\ UNCHANGED d_hits

----------------------------------------------------------------------------
(* upsert_new and the items table *)

\* ", ".join(strings)
RECURSIVE Join(_)
Join(strings) ==
    IF strings = <<>> THEN <<>>
    ELSE IF Len(strings) = 1 THEN strings[1]
    ELSE strings[1] \o <<",", " ">> \o Join(Tail(strings))

\* lines 86-95: the row an item is stored as, at time t
Row(item, t) ==
    [url |-> item.url, source |-> item.source, title |-> item.title,
     published_at |-> item.published_at, snippet |-> item.snippet,
     matched |-> Join(item.matched), score |-> item.score, first_seen_at |-> t]

\* An insert into a table whose url column is no key: the row is always added.
upsert_new_without_key(tbl, item, t) ==
    [result |-> "inserted", table |-> tbl \cup {Row(item, t)}]

\* The INSERT of lines 83-97 into the table of lines 44-55, whose url is the
\* PRIMARY KEY: with a row of that url in the table the INSERT raises
\* IntegrityError, which line 99 catches.
upsert_new(tbl, item, t) ==
    IF \E row \in tbl : row.url = item.url
    THEN [result |-> "present", table |-> tbl]
    ELSE [result |-> "inserted", table |-> tbl \cup {Row(item, t)}]

----------------------------------------------------------------------------
(* main *)

SOURCES == <<"BusinessWire", "PRNewswire", "GlobeNewswire">>

\* The loop of lines 265-269 stopped by the first adapter that raises.
RECURSIVE CollectItemsUnguarded(_, _, _, _)
CollectItemsUnguarded(outcomes, i, items, invoked) ==
    IF i > Len(SOURCES) THEN [items |-> items, invoked |-> invoked, aborted |-> FALSE]
    ELSE IF outcomes[i].ok
         THEN CollectItemsUnguarded(outcomes, i + 1, items \o outcomes[i].items,
                                    Append(invoked, SOURCES[i]))
         ELSE [items |-> items, invoked |-> Append(invoked, SOURCES[i]), aborted |-> TRUE]

\* The loop of lines 265-269 from source i on: outcomes[i] is what the adapter
\* of source i returns or raises; an exception is caught and printed.
RECURSIVE CollectItems(_, _, _, _)
CollectItems(outcomes, i, items, invoked) ==
    IF i > Len(SOURCES) THEN [items |-> items, invoked |-> invoked, aborted |-> FALSE]
    ELSE IF outcomes[i].ok
         THEN CollectItems(outcomes, i + 1, items \o outcomes[i].items,
                           Append(invoked, SOURCES[i]))
         ELSE CollectItems(outcomes, i + 1, items, Append(invoked, SOURCES[i]))

\* line 273: f"{it.get('title','')} {it.get('snippet','')}"; both keys are
\* always present, so the defaults are never used.
ItemText(it) == it.title \o <<" ">> \o Format(it.snippet)

(* The feeds, the keyword configurations and the runs tried. *)

titleResults == <<"Q","u","a","r","t","e","r","l","y"," ","r","e","s","u","l","t","s">>

bwPage == <<[href |-> RelHref("BusinessWire", 1), text |-> titleResults]>>
prPage == <<[href |-> RelHref("PRNewswire", 1), text |-> titleAcq]>>
gnFeed == [shape |-> "list", hasItems |-> TRUE, entries |-> <<eGood, eGood>>]
gnBroken == [shape |-> "object", hasItems |-> TRUE, entries |-> <<eGood, eString>>]

\* safe_get raised after its last attempt.
FetchError == Raise("FetchError")

\* What the adapter of each source may be given in a run: a fetch that fails,
\* or a page or payload to parse.
BWOutcomes == {FetchError, Ok(fetch_businesswire(bwPage))}
PROutcomes == {FetchError, Ok(fetch_prnewswire(prPage))}
GNOutcomes == {FetchError, fetch_globenewswire_json(gnFeed), fetch_globenewswire_json(gnBroken)}

KeywordConfigs == {<<KW_DEFINITIVE, kwMerger>>, <<kwAcquisitionCaps, kwNone>>}

\* The runs of main: run r + 1 starts once run r has, and may overlap it.
MaxRuns == 2
Runs == 1..MaxRuns

Urls(items) == {items[i].url : i \in 1..Len(items)}
TableUrls == {row.url : row \in table}

\* The items the adapters return in these runs, and what line 274 computes for
\* each of them under each keyword configuration: match_keywords, tabulated.
FeedItems ==
    UNION {{o.items[i] : i \in 1..Len(o.items)} : o \in BWOutcomes \cup PROutcomes \cup GNOutcomes}
MatchTable ==
    {<<kws, it, match_keywords(ItemText(it), kws)>> : kws \in KeywordConfigs, it \in FeedItems}
MatchOf(it) == (CHOOSE e \in MatchTable : e[1] = keywords /\ e[2] = it)[3]

NoFetch == [failed |-> <<>>, invoked |-> <<>>, results |-> <<>>]

MainOff ==
    /\ keywords = <<>> /\ table = {} /\ now = 0
    /\ pc = [r \in Runs |-> "off"]
    /\ all_items = [r \in Runs |-> <<>>]
    /\ idx = [r \in Runs |-> 1]
    /\ new_hits = [r \in Runs |-> <<>>]
    /\ body = [r \in Runs |-> <<>>]
    /\ fetched = [r \in Runs |-> NoFetch]
    /\ start_urls = [r \in Runs |-> {}]
    /\ calls = {} /\ inserts = <<>> /\ handed = {}

\* An empty store, a keyword configuration, and no run started.
MainInit ==
    /\ keywords \in KeywordConfigs
    /\ table = {} /\ now = 0
    /\ pc = [r \in Runs |-> "idle"]
    /\ all_items = [r \in Runs |-> <<>>]
    /\ idx = [r \in Runs |-> 1]
    /\ new_hits = [r \in Runs |-> <<>>]
    /\ body = [r \in Runs |-> <<>>]
    /\ fetched = [r \in Runs |-> NoFetch]
    /\ start_urls = [r \in Runs |-> {}]
    /\ calls = {} /\ inserts = <<>> /\ handed = {}

\* Lines 251-269: run r starts, opens the store and asks the three adapters.
StartRun(r) ==
    /\ pc[r] = "idle"
    /\ r > 1 => pc[r - 1] # "idle"
    /\ now' = now + 1
    /\ \E bw \in BWOutcomes, pr \in PROutcomes, gn \in GNOutcomes :
        LET outcomes == <<bw, pr, gn>>
            got == CollectItems(outcomes, 1, <<>>, <<>>)
        IN  /\ all_items' = [all_items EXCEPT ![r] = got.items]
            /\ fetched' = [fetched EXCEPT ![r] =
                              [failed |-> [i \in 1..Len(SOURCES) |-> ~outcomes[i].ok],
                               invoked |-> got.invoked,
                               results |-> [i \in 1..Len(SOURCES) |-> outcomes[i].items]]]
            /\ pc' = [pc EXCEPT ![r] = IF got.aborted THEN "aborted" ELSE "match"]
    /\ start_urls' = [start_urls EXCEPT ![r] = TableUrls]
    /\ UNCHANGED <<keywords, table, idx, new_hits, body, calls, inserts, handed>>

\* Lines 272-276: the next item of run r matches no keyword and is passed over.
SkipItem(r) ==
    /\ pc[r] = "match" /\ idx[r] <= Len(all_items[r])
    /\ MatchOf(all_items[r][idx[r]]).matched = <<>>
    /\ idx' = [idx EXCEPT ![r] = idx[r] + 1]
    /\ UNCHANGED <<keywords, table, now, pc, all_items, new_hits, body,
                   fetched, start_urls, calls, inserts, handed>>

\* The next item of run r with the keywords it matches and its score (lines 278-279).
Scored(r) ==
    LET it == all_items[r][idx[r]]
        m == MatchOf(it)
    IN  [source |-> it.source, title |-> it.title, url |-> it.url,
         published_at |-> it.published_at, snippet |-> it.snippet,
         matched |-> m.matched, score |-> m.score]

\* Lines 272-282: the next item of run r matches and upsert_new returns.
UpsertItem(r) ==
    /\ pc[r] = "match" /\ idx[r] <= Len(all_items[r])
    /\ Scored(r).matched # <<>>
    /\ LET up == upsert_new(table, Scored(r), now)
       IN  /\ table' = up.table
           /\ calls' = calls \cup {[url |-> Scored(r).url,
                                    had |-> Scored(r).url \in TableUrls,
                                    result |-> up.result]}
           /\ inserts' = IF up.result = "inserted"
                         THEN Append(inserts, Scored(r).url) ELSE inserts
           /\ new_hits' = [new_hits EXCEPT ![r] =
                              IF up.result = "inserted" THEN Append(@, Scored(r)) ELSE @]
    /\ idx' = [idx EXCEPT ![r] = idx[r] + 1]
    /\ UNCHANGED <<keywords, now, pc, all_items, body, fetched, start_urls, handed>>

\* The process of run r ends: what is local to the run is gone.
Exit(r, how) ==
    /\ pc' = [pc EXCEPT ![r] = how]
    /\ all_items' = [all_items EXCEPT ![r] = <<>>]
    /\ idx' = [idx EXCEPT ![r] = 1]
    /\ new_hits' = [new_hits EXCEPT ![r] = <<>>]
    /\ body' = [body EXCEPT ![r] = <<>>]
    /\ fetched' = [fetched EXCEPT ![r] = NoFetch]
    /\ start_urls' = [start_urls EXCEPT ![r] = {}]

\* Lines 281 and 83-97: the store fails on the INSERT or the commit with an
\* error that is no IntegrityError (the file is locked, the disk is full):
\* upsert_new does not catch it and run r ends.
StoreFails(r) ==
    /\ pc[r] = "match" /\ idx[r] <= Len(all_items[r])
    /\ Scored(r).matched # <<>>
    /\ Exit(r, "aborted")
    /\ UNCHANGED <<keywords, table, now, calls, inserts, handed>>

\* Line 284, after the loop: body = build_digest(new_hits)
BuildDigest(r) ==
    /\ pc[r] = "match" /\ idx[r] > Len(all_items[r])
    /\ body' = [body EXCEPT ![r] = build_digest(new_hits[r])]
    /\ pc' = [pc EXCEPT ![r] = "notify"]
    /\ UNCHANGED <<keywords, table, now, all_items, idx, new_hits,
                   fetched, start_urls, calls, inserts, handed>>

\* Lines 286-289: a notifier setting is missing from the environment
\* (KeyError) and run r ends before send_email is called.
SettingsMissing(r) ==
    /\ pc[r] = "notify"
    /\ Exit(r, "aborted")
    /\ UNCHANGED <<keywords, table, now, calls, inserts, handed>>

\* Lines 291-301: send_email is called with the digest, and returns (sent) or
\* raises.
Notify(r) ==
    /\ pc[r] = "notify"
    /\ handed' = handed \cup Urls(new_hits[r])
    /\ \/ Exit(r, "done")
       \/ Exit(r, "aborted")
    /\ UNCHANGED <<keywords, table, now, calls, inserts>>

----------------------------------------------------------------------------
(* The specifications *)

\* The variables of the parts that a part's actions leave alone.
NotMatch == <<fetchVars, digestVars, htmlVars, jsonVars, mainVars>>
NotFetch == <<matchVars, digestVars, htmlVars, jsonVars, mainVars>>
NotDigest == <<matchVars, fetchVars, htmlVars, jsonVars, mainVars>>
NotHtml == <<matchVars, fetchVars, digestVars, jsonVars, mainVars>>
NotJson == <<matchVars, fetchVars, digestVars, htmlVars, mainVars>>
NotMain == <<matchVars, fetchVars, digestVars, htmlVars, jsonVars>>

\* match_keywords on its own
InitMatch == MatchInit /\ FetchOff /\ DigestOff /\ HtmlOff /\ JsonOff /\ MainOff
NextMatch == MatchReturn /\ UNCHANGED NotMatch
SpecMatch == InitMatch /\ [][NextMatch]_vars

\* safe_get on its own. Every attempt ends: requests.get is given a timeout.
InitFetch == MatchOff /\ FetchInit /\ DigestOff /\ HtmlOff /\ JsonOff /\ MainOff
NextFetch ==
    \/ SafeGetCall /\ UNCHANGED NotFetch
    \/ SafeGetAttempt /\ UNCHANGED NotFetch
SpecFetch ==
    InitFetch /\ [][NextFetch]_vars /\ WF_vars(SafeGetAttempt /\ UNCHANGED NotFetch)

\* build_digest on its own
InitDigest == MatchOff /\ FetchOff /\ DigestInit /\ HtmlOff /\ JsonOff /\ MainOff
NextDigest == BuildDigestReturn /\ UNCHANGED NotDigest
SpecDigest == InitDigest /\ [][NextDigest]_vars

\* the HTML link-list adapters on their own
InitHtml == MatchOff /\ FetchOff /\ DigestOff /\ HtmlInit /\ JsonOff /\ MainOff
NextHtml ==
    \/ FetchBusinesswireReturn /\ UNCHANGED NotHtml
    \/ FetchPrnewswireReturn /\ UNCHANGED NotHtml
SpecHtml == InitHtml /\ [][NextHtml]_vars

\* the JSON feed adapter on its own
InitJson == MatchOff /\ FetchOff /\ DigestOff /\ HtmlOff /\ JsonInit /\ MainOff
NextJson == FetchGlobenewswireReturn /\ UNCHANGED NotJson
SpecJson == InitJson /\ [][NextJson]_vars

\* the runs of main on one store
Init == MatchOff /\ FetchOff /\ DigestOff /\ HtmlOff /\ JsonOff /\ MainInit
Next ==
    \E r \in Runs :
        \/ StartRun(r) /\ UNCHANGED NotMain
        \/ SkipItem(r) /\ UNCHANGED NotMain
        \/ UpsertItem(r) /\ UNCHANGED NotMain
        \/ StoreFails(r) /\ UNCHANGED NotMain
        \/ BuildDigest(r) /\ UNCHANGED NotMain
        \/ SettingsMissing(r) /\ UNCHANGED NotMain
        \/ Notify(r) /\ UNCHANGED NotMain
Spec == Init /\ [][Next]_vars

----------------------------------------------------------------------------
(* The claims *)

Min(a, b) == IF a < b THEN a ELSE b
Indices(seq) == [i \in 1..Len(seq) |-> i]

\* kw occurs in t at some offset, letter case ignored
OccursCI(kw, t) ==
    \E off \in 0..(Len(t) - Len(kw)) :
        \A j \in 1..Len(kw) : LowerChar(t[off + j]) = LowerChar(kw[j])

\* a and b are the same string, letter case ignored
SameCI(a, b) == Len(a) = Len(b) /\ OccursCI(a, b)

\* ---------------------------------------------------------------- C1
\* upsert_new on one store, from runs that follow or overlap one another.
C1_Inv ==
    \* no URL is reported inserted twice
    /\ \A i, j \in 1..Len(inserts) : inserts[i] = inserts[j] => i = j
    \* a call that returns reports inserted for a URL the store lacked and
    \* alreadyPresent for one it held; a duplicate raises nothing
    /\ \A c \in calls : /\ c.result \in {"inserted", "present"}
                        /\ c.result = "inserted" <=> ~c.had
    \* one row per URL
    /\ \A r1, r2 \in table : r1.url = r2.url => r1 = r2

\* a row, once written, stays as it was written
C1_RowsKept == \A row \in table : row \in table'

\* C1: over all interleavings of upsert_new calls from runs that rerun or
\* overlap on one store, at most one call per URL reports inserted, every other
\* call that returns reports alreadyPresent and no duplicate raises, the store
\* holds at most one row per URL, and a row is never changed or removed.
C1_Theorem == []C1_Inv /\ [][C1_RowsKept]_vars

\* Two overlapping runs have asked for the same URL: one call inserted it, the
\* other found it present.
C1_Witness ==
    /\ pc[1] = "match" /\ pc[2] = "match"
    /\ \E u \in TableUrls :
          /\ [url |-> u, had |-> FALSE, result |-> "inserted"] \in calls
          /\ [url |-> u, had |-> TRUE, result |-> "present"] \in calls

\* ---------------------------------------------------------------- C2
\* some configured keyword occurs, case ignored, in the title or in the snippet
KeywordInTitleOrSnippet(it) ==
    \E i \in 1..Len(keywords) :
        \/ OccursCI(keywords[i], it.title)
        \/ ~IsNone(it.snippet) /\ OccursCI(keywords[i], it.snippet.val)

\* The URLs a run should report: of the fetched items with a keyword in the
\* title or snippet, those the store did not hold when the run started.
ExpectedNew(r) ==
    {all_items[r][i].url : i \in {k \in 1..Len(all_items[r]) :
        /\ KeywordInTitleOrSnippet(all_items[r][k])
        /\ all_items[r][k].url \notin start_urls[r]}}

\* C2: when a run, alone on the store, hands its new hits to build_digest, they
\* are exactly the fetched items with a keyword in title or snippet whose URL
\* the store did not hold before the run, one per URL, and the store has
\* gained exactly their rows.
C2_Claim ==
    \A r \in Runs :
        (pc[r] = "notify" /\ TableUrls = start_urls[r] \cup Urls(new_hits[r]))
            => /\ Urls(new_hits[r]) = ExpectedNew(r)
               /\ Len(new_hits[r]) = Cardinality(ExpectedNew(r))

\* ---------------------------------------------------------------- C3
\* C3: once no run is under way, every URL recorded in the store has been in a
\* digest handed to the notifier.
C3_Claim ==
    (\A r \in Runs : pc[r] \in {"idle", "done", "aborted"}) => TableUrls \subseteq handed

\* ---------------------------------------------------------------- C4
RECURSIVE SurvivorItems(_, _)
SurvivorItems(f, i) ==
    IF i > Len(SOURCES) THEN <<>>
    ELSE (IF f.failed[i] THEN <<>> ELSE f.results[i]) \o SurvivorItems(f, i + 1)

AllFailed(f) == \A i \in 1..Len(SOURCES) : f.failed[i]

C4_Inv ==
    \A r \in Runs :
        /\ pc[r] \in {"match", "notify"} =>
              \* every adapter was invoked, and the items are those of the
              \* adapters that did not fail, in source order
              /\ fetched[r].invoked = SOURCES
              /\ all_items[r] = SurvivorItems(fetched[r], 1)
        /\ (pc[r] = "notify" /\ AllFailed(fetched[r])) => body[r] = NoMatchDigest

\* the fetch phase never ends a run: it is followed by the matching loop
C4_Proceeds == \A r \in Runs : (pc[r] = "idle" /\ pc'[r] # "idle") => pc'[r] = "match"

\* C4: an adapter that fails adds no item and leaves the items of the others
\* as they are, every adapter is still invoked and the run goes on to match,
\* insert and build the digest; with all three failed the digest is the fixed
\* "no matches" message.
C4_Theorem == []C4_Inv /\ [][C4_Proceeds]_vars

\* Run 1 lost all three adapters and has built the "no matches" digest; run 2
\* lost PRNewswire alone and holds the items of the two others.
C4_Witness ==
    /\ pc[1] = "notify" /\ AllFailed(fetched[1]) /\ body[1] = NoMatchDigest
    /\ pc[2] = "match" /\ fetched[2].failed = <<FALSE, TRUE, FALSE>>
    /\ Len(all_items[2]) = 3
    /\ all_items[2][1].source = "BusinessWire" /\ all_items[2][2].source = "GlobeNewswire"

\* ---------------------------------------------------------------- C5
ErrorOf(o) == IF o.exc # "" THEN o ELSE [exc |-> "HTTPError", status |-> o.status]

\* The retry policy, given the outcomes of an attempt that count as success.
RetryPolicy(successes) ==
    LET Succeeds(o) == o \in successes IN
    /\ Len(sg_log) <= MaxAttempts
    /\ sg_pc = "loop" => /\ Len(sg_log) < MaxAttempts
                         /\ \A i \in 1..Len(sg_log) : ~Succeeds(sg_log[i])
    /\ sg_pc = "returned" => /\ sg_log # <<>>
                             /\ Succeeds(sg_log[Len(sg_log)])
                             /\ sg_result = sg_log[Len(sg_log)]
                             /\ \A i \in 1..(Len(sg_log) - 1) : ~Succeeds(sg_log[i])
    /\ sg_pc = "raised" => /\ Len(sg_log) = MaxAttempts
                           /\ \A i \in 1..Len(sg_log) : ~Succeeds(sg_log[i])
                           /\ sg_result = ErrorOf(sg_log[MaxAttempts])

Is2xx == {o \in AttemptOutcomes : o.exc = "" /\ o.status >= 200 /\ o.status <= 299}
NotRejected == {o \in AttemptOutcomes : o.exc = "" /\ (o.status < 400 \/ o.status > 599)}

\* C5 as stated: the attempt that succeeds is one answered with a 2xx status.
C5_Original == RetryPolicy(Is2xx)

C5_Amended == RetryPolicy(NotRejected)

\* C5, amended: a call makes at most 3 attempts, returns the response of the
\* first attempt that has no transport error and no 4xx or 5xx status and
\* attempts nothing after it, raises only after 3 failed attempts, and then
\* the error of the third; each call ends, and starts from its own attempts.
C5_Theorem == []C5_Amended /\ ((sg_pc = "loop") ~> (sg_pc \in {"returned", "raised"}))

\* The second call failed three times, with different errors, and raised the last.
C5_Witness ==
    /\ sg_calls = 2 /\ sg_pc = "raised"
    /\ sg_log = <<[exc |-> "Timeout", status |-> 0], [exc |-> "", status |-> 404],
                  [exc |-> "", status |-> 503]>>
    /\ sg_result = [exc |-> "HTTPError", status |-> 503]

\* ---------------------------------------------------------------- C6
ExpectedMatched ==
    LET Matches(kw) == OccursCI(kw, m_text) IN SelectSeq(m_keywords, Matches)

ExpectedWeight(kw) ==
    IF SameCI(kw, KW_DEFINITIVE) THEN WeightDefinitive
    ELSE IF SameCI(kw, KW_ACQUISITION) THEN WeightAcquisition
    ELSE WeightOther

RECURSIVE SumWeights(_)
SumWeights(kws) == IF kws = <<>> THEN 0 ELSE ExpectedWeight(Head(kws)) + SumWeights(Tail(kws))

\* C6: match_keywords returns the keywords that occur in the text, case
\* ignored, in the order of the keyword list, and the sum of their weights:
\* 5 for "definitive agreement", 3 for "acquisition", 2 for any other.
C6_Theorem ==
    m_pc = "ret" => /\ m_result.matched = ExpectedMatched
                    /\ m_result.score = SumWeights(ExpectedMatched)

\* "ACQUISITION" and "merger" against a text with "Acquisition" once and
\* "merger" twice, in two letter cases: both matched, score 3 + 2.
C6_Witness ==
    /\ m_pc = "ret" /\ m_text = txtB
    /\ m_keywords = <<kwAcquisitionCaps, kwMerger>>
    /\ m_result = [matched |-> <<kwAcquisitionCaps, kwMerger>>, score |-> 5]

\* ---------------------------------------------------------------- C7
IsUrlLine(l) == l.kind = "url"
IsHeaderLine(l) == l.kind = "header"
UrlLines == SelectSeq(d_lines, IsUrlLine)
TitleAt(k) == d_lines[k].kind = "title"
TitlePositions == SelectSeq(Indices(d_lines), TitleAt)
HitOfUrl(u) == d_hits[CHOOSE i \in 1..Len(d_hits) : d_hits[i].url = u]
\* the j-th item of the digest
Rendered(j) == HitOfUrl(UrlLines[j].v)

\* C7: a digest of one or more hits renders every hit once, by descending
\* score and, within a score, descending published_at string (none counts as
\* ""), with a source header right before a hit if and only if the hit is the
\* first or of another source than the hit before it.
C7_Theorem ==
    (d_pc = "ret" /\ d_hits # <<>>) =>
        /\ Len(UrlLines) = Len(d_hits)
        /\ \A i \in 1..Len(d_hits) :
              Cardinality({j \in 1..Len(UrlLines) : UrlLines[j].v = d_hits[i].url}) = 1
        /\ \A j \in 1..(Len(UrlLines) - 1) :
              /\ Rendered(j).score >= Rendered(j + 1).score
              /\ Rendered(j).score = Rendered(j + 1).score =>
                    ~StrLess(OrEmpty(Rendered(j).published_at),
                             OrEmpty(Rendered(j + 1).published_at))
        /\ Len(TitlePositions) = Len(d_hits)
        /\ \A j \in 1..Len(TitlePositions) :
              LET k == TitlePositions[j]
              IN  /\ d_lines[k].v = Rendered(j).title
                  /\ d_lines[k + 1] = UrlLines[j]
                  /\ (d_lines[k - 1].kind = "header" /\ d_lines[k - 1].v = Rendered(j).source)
                        <=> (j = 1 \/ Rendered(j).source # Rendered(j - 1).source)
        /\ \A k \in 1..Len(d_lines) :
              d_lines[k].kind = "header" => (k < Len(d_lines) /\ d_lines[k + 1].kind = "title")

\* Hits found with scores 2, 3, 5 from sources A, B, A and no timestamps: the
\* digest has them in the order 5, 3, 2 under three headers, two of them A's.
C7_Witness ==
    /\ d_pc = "ret" /\ Len(d_hits) = 3
    /\ d_hits[1].score = 2 /\ d_hits[2].score = 3 /\ d_hits[3].score = 5
    /\ d_hits[1].source = "BusinessWire" /\ d_hits[2].source = "GlobeNewswire"
    /\ d_hits[3].source = "BusinessWire"
    /\ \A i \in 1..3 : IsNone(d_hits[i].published_at)
    /\ UrlLines[1].v = d_hits[3].url /\ UrlLines[3].v = d_hits[1].url
    /\ Len(SelectSeq(d_lines, IsHeaderLine)) = 3

\* ---------------------------------------------------------------- C8
FirstOfItsUrl(i) == \A k \in 1..(i - 1) : h_items[k].url # h_items[i].url
\* the places in the candidate list where a URL occurs for the first time
FirstPlaces == SelectSeq(Indices(h_items), FirstOfItsUrl)

\* C8: what an HTML adapter returns is the first occurrence of each distinct
\* URL among its candidates, in the order found, cut to the cap (50 or 60): no
\* URL twice, and min(cap, number of distinct URLs) items.
C8_Theorem ==
    h_pc = "ret" =>
        /\ Len(FirstPlaces) = Cardinality(Urls(h_items))
        /\ Len(h_result) = Min(CapOf(h_source), Len(FirstPlaces))
        /\ \A j \in 1..Len(h_result) : h_result[j] = h_items[FirstPlaces[j]]
        /\ Cardinality(Urls(h_result)) = Len(h_result)

\* 100 candidates with 100 URLs on a BusinessWire page: the first 50 are returned.
C8_Witness ==
    /\ h_pc = "ret" /\ h_source = "BusinessWire"
    /\ Len(h_items) = 100 /\ Cardinality(Urls(h_items)) = 100
    /\ h_result = SubSeq(h_items, 1, 50)

\* ---------------------------------------------------------------- C9
OnArticlePath(source, href) ==
    IF source = "BusinessWire" THEN HasChunk(href, BW_MARKER)
    ELSE HasChunk(href, PR_MARKER) /\ EndsWithHtml(href)

\* anchor i of the page became a candidate
Kept(i) ==
    \E k \in 1..Len(h_items) :
        /\ h_items[k].url = Resolve(BaseOf(h_source), h_anchors[i].href)
        /\ h_items[k].title = normalize_whitespace(Str(h_anchors[i].text))

\* C9: in both HTML adapters an anchor on the article path is kept if and only
\* if its normalised text has at least 12 characters.
C9_Claim ==
    h_pc = "ret" =>
        \A i \in 1..Len(h_anchors) :
            OnArticlePath(h_source, h_anchors[i].href) =>
                (Kept(i) <=> Len(normalize_whitespace(Str(h_anchors[i].text))) >= 12)

\* ---------------------------------------------------------------- C10
\* an entry that is an object with a title and a link
WellFormed(e) ==
    /\ e.kind = "dict"
    /\ \E t \in {e.f.Title, e.f.title} : t.t = "str" /\ normalize_whitespace(Str(t.s)) # <<>>
    /\ \E l \in {e.f.Url, e.f.url, e.f.Link, e.f.link} : l.t = "str" /\ l.s # <<>>

\* C10: whatever entries a payload lists, the adapter does not fail, and it
\* returns one item for each well-formed entry (up to the cap of 60).
C10_Claim ==
    (j_pc # "call" /\ j_payload.hasItems) =>
        /\ j_result.ok
        /\ Len(j_result.items) =
              Min(GN_CAP, Cardinality({i \in 1..Len(j_payload.entries) :
                                          WellFormed(j_payload.entries[i])}))

====
